---------------------------- MODULE Spec2Model ----------------------------
(*
  State-machine model of two generator plugins:

    - digital_ec_templates__inv  (BagModules/digital_ec_templates/inv.py),
      the schematic generator of an inverter cell: design_specs stores the
      design parameters, rejects odd finger counts, balances the dummy
      fingers of the PMOS and NMOS rows and designs the four transistor
      instances XP, XDP, XN, XDN; get_layout_params reads the parameter
      table back.
    - StdLaygoTemplate.setup_floorplan  (digital_ec/layout/stdcells/core.py),
      the row/track floorplan of a standard cell.

  The two objects share no state.  SpecSizing applies design_specs once to
  a fresh inverter generator, over a wide range of arguments; SpecInv runs
  sequences of calls on one inverter generator; SpecFloor runs
  setup_floorplan on a fresh template; Spec runs both objects.

  Python values held in dictionaries are modelled as one-element tuples
  <<v>>, and Python's None as the empty tuple, so that a dictionary entry can
  be compared with None whatever the type of the value.
*)
EXTENDS Integers, Sequences, FiniteSets, TLC

(***************************************************************************)
(* Bounds of the model.                                                    *)
(***************************************************************************)
\* single calls: finger counts range over -MaxFg .. MaxFg
MaxFg == 4
\* single calls: base dummy counts range over 0 .. MaxDum
MaxDum == 2
\* call sequences: finger counts range over 0 .. MaxSeqFg
MaxSeqFg == 2
\* each track list of a floorplan configuration has 1 .. MaxRows entries
MaxRows == 3
\* number of tracks of one type a row offers, as the host reports it
MaxTracks == 1

(***************************************************************************)
(* Values.                                                                 *)
(***************************************************************************)
None == <<>>

Some(v) == <<v>>

Abs(n) == IF n < 0 THEN 0 - n ELSE n

Max(a, b) == IF a > b THEN a ELSE b

Fingers == (0 - MaxFg) .. MaxFg

Dummies == 0 .. MaxDum

\* channel length, widths and device intent come together from one technology
\* choice of the caller; the fields hold pairwise distinct values
Corners ==
    { [lch |-> 1, wp |-> 6, wn |-> 4, intent |-> "lvt"],
      [lch |-> 2, wp |-> 8, wn |-> 5, intent |-> "hvt"] }

\* the arguments of a call that passes every parameter
FullArgs ==
    { [lch |-> c.lch, wp |-> c.wp, wn |-> c.wn, fgp |-> fgp, fgn |-> fgn,
       nduml |-> nduml, ndumr |-> ndumr, intent |-> c.intent] :
        c \in Corners, fgp \in Fingers, fgn \in Fingers,
        nduml \in Dummies, ndumr \in Dummies }

SeqFingers == 0 .. MaxSeqFg

\* in call sequences the base dummy counts come with the technology choice
SeqVariants ==
    { [lch |-> 1, wp |-> 6, wn |-> 4, intent |-> "lvt", nduml |-> 0, ndumr |-> 1],
      [lch |-> 2, wp |-> 8, wn |-> 5, intent |-> "hvt", nduml |-> 2, ndumr |-> 0] }

SeqArgs ==
    { [lch |-> c.lch, wp |-> c.wp, wn |-> c.wn, fgp |-> fgp, fgn |-> fgn,
       nduml |-> c.nduml, ndumr |-> c.ndumr, intent |-> c.intent] :
        c \in SeqVariants, fgp \in SeqFingers, fgn \in SeqFingers }

(***************************************************************************)
(* digital_ec_templates__inv                                               *)
(***************************************************************************)
param_list == << "lch", "wp", "wn", "fgp", "fgn", "nduml", "ndumr", "intent" >>

ParamNames == { param_list[i] : i \in 1 .. Len(param_list) }

InstNames == { "XP", "XDP", "XN", "XDN" }

VARIABLES
    parameters,   \* self.parameters : parameter name -> value or None
    instances,    \* self.instances  : instance name -> design arguments or None
    op,           \* the operation called last
    err,          \* how it ended: "none" or the exception raised
    passed,       \* the parameter names the last design_specs call passed
    local_dict,   \* locals() of the last design_specs call whose body ran
    fg_locals,    \* delta, fg_tot and the dummy splits that body computed
    kwargs,       \* the keyword arguments of the last get_layout_params call
    ret,          \* the dictionary the last get_layout_params call returned
    last_ok,      \* history: arguments of the last design_specs call
                  \* that returned without raising
    fp_in,        \* arguments of the setup_floorplan call, None before it
    fp_read,      \* the keys of config the call read
    fp_rows,      \* the rows of the template: None, or how they were set
    fp_pins,      \* the debug pins the call added
    fp_err,       \* "none" or the exception the call raised
    fp_ret        \* the (vss_tid, vdd_tid) pair the call returned

inv_vars == << parameters, instances, op, err, passed, local_dict,
               fg_locals, kwargs, ret, last_ok >>

fp_vars == << fp_in, fp_read, fp_rows, fp_pins, fp_err, fp_ret >>

vars == << inv_vars, fp_vars >>

\* Python's binding of the call to the signature: the eight parameters are
\* required, so a call that omits one raises TypeError before the body runs
BindFails(names) == ParamNames \ names # {}

\* locals() at the first line of the body: the bound parameters, self, kwargs
Locals(args) ==
    [ k \in ParamNames \cup {"self", "kwargs"} |->
        IF k \in ParamNames THEN args[k]
        ELSE IF k = "self" THEN "self" ELSE <<>> ]

\* the loop over param_list: stops at the first name locals() does not hold
RECURSIVE StoreLoop(_, _, _)
StoreLoop(i, params, ld) ==
    IF i > Len(param_list) THEN [err |-> "none", parameters |-> params]
    ELSE IF param_list[i] \notin DOMAIN ld
         THEN [err |-> "Exception", parameters |-> params]
         ELSE StoreLoop(i + 1,
                        [params EXCEPT ![param_list[i]] = Some(ld[param_list[i]])],
                        ld)

StoreParams(params, ld) == StoreLoop(1, params, ld)

OddFingersAnd(fgp, fgn) == fgp % 2 = 1 /\ fgn % 2 = 1

\* the error check on the finger counts
OddFingers(fgp, fgn) == fgp % 2 = 1 \/ fgn % 2 = 1

DummySplitFullDelta(fgp, fgn, nduml, ndumr) ==
    LET delta == Abs(fgp - fgn) IN
    IF fgp > fgn
    THEN [delta |-> delta, fg_tot |-> fgp + nduml + ndumr,
          p_nduml |-> nduml, p_ndumr |-> ndumr,
          n_nduml |-> nduml + delta, n_ndumr |-> ndumr + delta]
    ELSE [delta |-> delta, fg_tot |-> fgn + nduml + ndumr,
          n_nduml |-> nduml, n_ndumr |-> ndumr,
          p_nduml |-> nduml + delta, p_ndumr |-> ndumr + delta]

DummySplitFgTotP(fgp, fgn, nduml, ndumr) ==
    LET delta == Abs(fgp - fgn) IN
    IF fgp > fgn
    THEN [delta |-> delta, fg_tot |-> fgp + nduml + ndumr,
          p_nduml |-> nduml, p_ndumr |-> ndumr,
          n_nduml |-> nduml + delta \div 2, n_ndumr |-> ndumr + delta \div 2]
    ELSE [delta |-> delta, fg_tot |-> fgp + nduml + ndumr,
          n_nduml |-> nduml, n_ndumr |-> ndumr,
          p_nduml |-> nduml + delta \div 2, p_ndumr |-> ndumr + delta \div 2]

DummySplitLeftOnly(fgp, fgn, nduml, ndumr) ==
    LET delta == Abs(fgp - fgn) IN
    IF fgp > fgn
    THEN [delta |-> delta, fg_tot |-> fgp + nduml + ndumr,
          p_nduml |-> nduml, p_ndumr |-> ndumr,
          n_nduml |-> nduml + delta, n_ndumr |-> ndumr]
    ELSE [delta |-> delta, fg_tot |-> fgn + nduml + ndumr,
          n_nduml |-> nduml, n_ndumr |-> ndumr,
          p_nduml |-> nduml + delta, p_ndumr |-> ndumr]

\* total number of fingers and number of left/right dummies of each device
DummySplit(fgp, fgn, nduml, ndumr) ==
    LET delta == Abs(fgp - fgn) IN
    IF fgp > fgn
    THEN [delta |-> delta, fg_tot |-> fgp + nduml + ndumr,
          p_nduml |-> nduml, p_ndumr |-> ndumr,
          n_nduml |-> nduml + delta \div 2, n_ndumr |-> ndumr + delta \div 2]
    ELSE [delta |-> delta, fg_tot |-> fgn + nduml + ndumr,
          n_nduml |-> nduml, n_ndumr |-> ndumr,
          p_nduml |-> nduml + delta \div 2, p_ndumr |-> ndumr + delta \div 2]

\* the four design() calls on the sub-instances
DesignInstances(insts, ld, s) ==
    [ insts EXCEPT
        !["XP"]  = Some([w |-> ld["wp"], l |-> ld["lch"], nf |-> ld["fgp"],
                         intent |-> ld["intent"]]),
        !["XDP"] = Some([w |-> ld["wp"], l |-> ld["lch"],
                         nf |-> s.p_nduml + s.p_ndumr, intent |-> ld["intent"]]),
        !["XN"]  = Some([w |-> ld["wn"], l |-> ld["lch"], nf |-> ld["fgn"],
                         intent |-> ld["intent"]]),
        !["XDN"] = Some([w |-> ld["wn"], l |-> ld["lch"],
                         nf |-> s.n_nduml + s.n_ndumr, intent |-> ld["intent"]]) ]

design_specs_check_first(params, insts, locs, ld) ==
    IF OddFingers(ld["fgp"], ld["fgn"])
    THEN [err |-> "ValueError", parameters |-> params,
          instances |-> insts, fg_locals |-> locs]
    ELSE LET stored == StoreParams(params, ld)
             s == DummySplit(ld["fgp"], ld["fgn"], ld["nduml"], ld["ndumr"])
         IN [err |-> stored.err, parameters |-> stored.parameters,
             instances |-> DesignInstances(insts, ld, s),
             fg_locals |-> Some(s)]

\* the body of design_specs on the object state (params, insts); locs is the
\* record of sizing locals kept from the last body that computed them
design_specs(params, insts, locs, ld) ==
    LET stored == StoreParams(params, ld) IN
    IF stored.err # "none"
    THEN [err |-> stored.err, parameters |-> stored.parameters,
          instances |-> insts, fg_locals |-> locs]
    ELSE IF OddFingers(ld["fgp"], ld["fgn"])
    THEN [err |-> "ValueError", parameters |-> stored.parameters,
          instances |-> insts, fg_locals |-> locs]
    ELSE LET s == DummySplit(ld["fgp"], ld["fgn"], ld["nduml"], ld["ndumr"])
         IN [err |-> "none", parameters |-> stored.parameters,
             instances |-> DesignInstances(insts, ld, s),
             fg_locals |-> Some(s)]

get_layout_pin_mapping == [ k \in {} |-> "" ]

\* dict.update
Update(d, kw) ==
    [ k \in DOMAIN d \cup DOMAIN kw |-> IF k \in DOMAIN kw THEN kw[k] ELSE d[k] ]

get_layout_params_swapped(params, kw) ==
    Update([ lch |-> params["lch"], wp |-> params["wn"], wn |-> params["wp"],
             fgp |-> params["fgp"], fgn |-> params["fgn"],
             nduml |-> params["nduml"], ndumr |-> params["ndumr"],
             threshold |-> params["intent"],
             rename_dict |-> Some(get_layout_pin_mapping) ], kw)

get_layout_params(params, kw) ==
    Update([ lch |-> params["lch"], wp |-> params["wp"], wn |-> params["wn"],
             fgp |-> params["fgp"], fgn |-> params["fgn"],
             nduml |-> params["nduml"], ndumr |-> params["ndumr"],
             threshold |-> params["intent"],
             rename_dict |-> Some(get_layout_pin_mapping) ], kw)

\* the keyword arguments callers of get_layout_params pass
NoKwargs == [ k \in {} |-> None ]

KwargsChoices ==
    { NoKwargs,
      [ k \in {"fgp", "extra"} |-> IF k = "fgp" THEN Some(98) ELSE Some(97) ],
      [ k \in {"threshold", "rename_dict"} |->
          IF k = "threshold" THEN Some("svt") ELSE Some("renamed") ] }


InvInit ==
    /\ parameters = [ p \in ParamNames |-> None ]
    /\ instances = [ n \in InstNames |-> None ]
    /\ op = "init"
    /\ err = "none"
    /\ passed = {}
    /\ local_dict = None
    /\ fg_locals = None
    /\ kwargs = NoKwargs
    /\ ret = None
    /\ last_ok = None

\* design_specs called with every parameter, the arguments drawn from Args
DesignSpecsOn(Args) ==
    \E args \in Args :
        LET ld == Locals(args)
            r == design_specs(parameters, instances, fg_locals, ld)
        IN /\ ~ BindFails(DOMAIN args)
           /\ op' = "design_specs"
           /\ passed' = DOMAIN args
           /\ local_dict' = Some(ld)
           /\ err' = r.err
           /\ parameters' = r.parameters
           /\ instances' = r.instances
           /\ fg_locals' = r.fg_locals
           /\ kwargs' = NoKwargs
           /\ ret' = None
           /\ last_ok' = IF r.err = "none" THEN Some(args) ELSE last_ok
           /\ UNCHANGED fp_vars

\* one call on a fresh object
DesignSpecsOnce == op = "init" /\ DesignSpecsOn(FullArgs)

DesignSpecsCall == DesignSpecsOn(SeqArgs)

\* design_specs called without one of its parameters: the binding fails, the
\* body does not run and no argument value is read (a call that omits several
\* parameters fails in the same way)
DesignSpecsIncomplete ==
    \E missing \in ParamNames :
        /\ BindFails(ParamNames \ {missing})
        /\ op' = "design_specs"
        /\ passed' = ParamNames \ {missing}
        /\ err' = "TypeError"
        /\ kwargs' = NoKwargs
        /\ ret' = None
        /\ UNCHANGED << parameters, instances, local_dict, fg_locals, last_ok >>
        /\ UNCHANGED fp_vars

GetLayoutParams ==
    \E kw \in KwargsChoices :
        /\ op' = "get_layout_params"
        /\ err' = "none"
        /\ kwargs' = kw
        /\ ret' = Some(get_layout_params(parameters, kw))
        /\ UNCHANGED << parameters, instances, passed, local_dict,
                        fg_locals, last_ok >>
        /\ UNCHANGED fp_vars

InvNext == DesignSpecsCall \/ DesignSpecsIncomplete \/ GetLayoutParams

SizingNext == DesignSpecsOnce

(***************************************************************************)
(* StdLaygoTemplate.setup_floorplan                                        *)
(***************************************************************************)
TrackKeys == { "ng_tracks", "ngb_tracks", "nds_tracks" }

\* a track list with n entries, one per row
TrackList(n, first) == [ i \in 1 .. n |-> first + i ]

\* the laygo configuration dictionary; lens gives the length of each track list
Config(lens, tr_w_sup) ==
    [ tr_w_supply |-> tr_w_sup, wp |-> 6, wn |-> 4, thp |-> "lvt", thn |-> "svt",
      row_kwargs |-> <<"kw_n", "kw_p">>,
      ng_tracks |-> TrackList(lens["ng_tracks"], 0),
      ngb_tracks |-> TrackList(lens["ngb_tracks"], 1),
      nds_tracks |-> TrackList(lens["nds_tracks"], 2) ]

\* config.get(key, None)
ConfigGet(config, key) == IF key \in DOMAIN config THEN Some(config[key]) ELSE None

RowLayoutInfo == [ config |-> "config", row_prop_list |-> <<"nch", "pch">> ]

\* what the host reports during one call: twice the number of space tracks
\* around a supply wire (half_space=True allows half tracks), and the number
\* of tracks of each type in each row
Hosts ==
    { [ sp2 |-> s, ntr |-> n ] :
        s \in 0 .. 1,
        n \in [ {0, 1} \X {"g", "gb", "ds"} -> 0 .. MaxTracks ] }

\* a host for calls that query no track count
QuietHosts == { h \in Hosts : \A k \in DOMAIN h.ntr : h.ntr[k] = 0 }

BadRowShapeAnd(num_g_tracks, num_gb_tracks, num_ds_tracks) ==
    Len(num_g_tracks) # 2 /\ Len(num_gb_tracks) # 2 /\ Len(num_ds_tracks) # 2

\* the check that a standard cell has two rows
BadRowShape(num_g_tracks, num_gb_tracks, num_ds_tracks) ==
    Len(num_g_tracks) # 2 \/ Len(num_gb_tracks) # 2 \/ Len(num_ds_tracks) # 2

\* the supply increment: inc // 2 when even, the float inc / 2 when odd; kept
\* as twice its value, with the Python type of the result
SupplyInc(sp2, tr_w_sup) ==
    LET inc == sp2 + tr_w_sup IN
    [ twice |-> inc, type |-> IF inc % 2 = 0 THEN "int" ELSE "float" ]

\* [ntr + inc for ntr in tracks], in half tracks
AddInc(tracks, inc) == [ i \in DOMAIN tracks |-> 2 * tracks[i] + inc.twice ]

RowName(row_idx) == IF row_idx = 0 THEN "nch" ELSE "pch"

\* the pins of the debug block: one per track of each type in each row
DebugPins(host) ==
    UNION { { << RowName(k[1]), k[2], tidx >> : tidx \in 0 .. host.ntr[k] - 1 } :
            k \in {0, 1} \X {"g", "gb", "ds"} }

\* the two supply track IDs; tracks are in half tracks, -0.5 is -1
SupplyTids(tr_w_sup) ==
    [ vss |-> [ layer |-> "hm_layer", track2 |-> 0 - 1, width |-> tr_w_sup ],
      vdd |-> [ layer |-> "hm_layer", track_at |-> "bound_box.top_unit",
                width |-> tr_w_sup ] ]

\* setup_floorplan on a template whose rows are `rows`
setup_floorplan(rows, config, row_layout_info, num_col, debug, host) ==
    LET tr_w_sup == config["tr_w_supply"]
        done(rd, rw) ==
            [ err |-> "none", read |-> rd, rows |-> rw,
              pins |-> IF debug THEN DebugPins(host) ELSE {},
              ret |-> Some(SupplyTids(tr_w_sup)) ]
    IN
    IF row_layout_info # None
    THEN done({"tr_w_supply"},
              Some([ by |-> "set_rows_direct", info |-> row_layout_info[1],
                     num_col |-> num_col, draw_boundaries |-> FALSE,
                     end_mode |-> 0 ]))
    ELSE
        LET rd == {"tr_w_supply", "wp", "wn", "thp", "thn", "row_kwargs",
                   "ng_tracks", "ngb_tracks", "nds_tracks", "sub_w_list"}
            num_g_tracks == config["ng_tracks"]
            num_gb_tracks == config["ngb_tracks"]
            num_ds_tracks == config["nds_tracks"]
        IN
        IF BadRowShape(num_g_tracks, num_gb_tracks, num_ds_tracks)
        THEN [ err |-> "ValueError", read |-> rd, rows |-> rows,
               pins |-> {}, ret |-> None ]
        ELSE
            LET inc == SupplyInc(host.sp2, tr_w_sup) IN
            done(rd,
                 Some([ by |-> "set_row_types",
                        row_list |-> <<"nch", "pch">>,
                        w_list |-> << config["wn"], config["wp"] >>,
                        orient_list |-> <<"MX", "R0">>,
                        thres_list |-> << config["thn"], config["thp"] >>,
                        draw_boundaries |-> FALSE, end_mode |-> 0,
                        num_g_tracks |-> num_g_tracks,
                        num_gb_tracks2 |-> AddInc(num_gb_tracks, inc),
                        num_ds_tracks2 |-> AddInc(num_ds_tracks, inc),
                        inc_type |-> inc.type,
                        guard_ring_nf |-> 0,
                        row_kwargs |-> config["row_kwargs"],
                        num_col |-> num_col,
                        row_sub_widths |-> ConfigGet(config, "sub_w_list") ]))

FpInit ==
    /\ fp_in = None
    /\ fp_read = {}
    /\ fp_rows = None
    /\ fp_pins = {}
    /\ fp_err = "none"
    /\ fp_ret = None

\* draw_layout calls setup_floorplan once, on a template without rows
SetupFloorplan ==
    /\ fp_in = None
    /\ \E lens \in [ TrackKeys -> 1 .. MaxRows ], tr_w_sup \in 1 .. 2,
          rli \in { None, Some(RowLayoutInfo) }, debug \in BOOLEAN :
         \E host \in IF debug THEN Hosts ELSE QuietHosts :
            LET r == setup_floorplan(fp_rows, Config(lens, tr_w_sup), rli,
                                     4, debug, host)
            IN /\ fp_in' = Some([ lens |-> lens, tr_w_sup |-> tr_w_sup,
                                  row_layout_info |-> rli, debug |-> debug,
                                  host |-> host ])
               /\ fp_read' = r.read
               /\ fp_rows' = r.rows
               /\ fp_pins' = r.pins
               /\ fp_err' = r.err
               /\ fp_ret' = r.ret
    /\ UNCHANGED inv_vars

FloorNext == SetupFloorplan

(***************************************************************************)
(* Specifications.                                                         *)
(***************************************************************************)
Init == InvInit /\ FpInit

Next == InvNext \/ FloorNext

Spec == Init /\ [][Next]_vars

SpecSizing == Init /\ [][SizingNext]_vars

SpecInv == Init /\ [][InvNext]_vars

SpecFloor == Init /\ [][FloorNext]_vars

(***************************************************************************)
(* Properties of design_specs, one call on a fresh object (SpecSizing).    *)
(***************************************************************************)
IsEven(n) == \E k \in (0 - Abs(n)) .. Abs(n) : n = 2 * k

IsOdd(n) == \E k \in (0 - Abs(n) - 1) .. Abs(n) : n = 2 * k + 1

\* the arguments of the last call whose body ran
Args == local_dict[1]

\* the call returned without raising
Designed == op = "design_specs" /\ err = "none" /\ local_dict # None

NonNegEvenArgs ==
    \A p \in {"fgp", "fgn", "nduml", "ndumr"} : Args[p] >= 0 /\ IsEven(Args[p])

Nf(name) == instances[name][1].nf

\* C1: for non-negative even fgp, fgn, nduml, ndumr the device with the
\* larger finger count gets exactly the base dummy counts (nduml left, ndumr
\* right), the device with the smaller finger count gets the base counts plus
\* half the absolute finger-count difference on each side, both get the base
\* counts when fgp = fgn, and XDP and XDN are designed with nf equal to the sum
\* of their device's left and right dummy counts.
C1_DummySplit ==
    (Designed /\ NonNegEvenArgs) =>
        LET s == fg_locals[1]
            half == CHOOSE h \in 0 .. MaxFg + 1 :
                        2 * h = Abs(Args["fgp"] - Args["fgn"])
            base(l, r) == l = Args["nduml"] /\ r = Args["ndumr"]
            more(l, r) == l = Args["nduml"] + half /\ r = Args["ndumr"] + half
        IN /\ Args["fgp"] > Args["fgn"] =>
                base(s.p_nduml, s.p_ndumr) /\ more(s.n_nduml, s.n_ndumr)
           /\ Args["fgn"] > Args["fgp"] =>
                base(s.n_nduml, s.n_ndumr) /\ more(s.p_nduml, s.p_ndumr)
           /\ Args["fgp"] = Args["fgn"] =>
                base(s.p_nduml, s.p_ndumr) /\ base(s.n_nduml, s.n_ndumr)
           /\ Nf("XDP") = s.p_nduml + s.p_ndumr
           /\ Nf("XDN") = s.n_nduml + s.n_ndumr

\* a call whose NMOS has more fingers than its PMOS, by at least four
C1_Witness ==
    /\ Designed /\ NonNegEvenArgs
    /\ Args["fgn"] >= Args["fgp"] + 4
    /\ Args["nduml"] > 0
    /\ fg_locals[1].p_nduml > Args["nduml"]

\* C2: for non-negative even fgp, fgn, nduml, ndumr the total finger count
\* fg_tot equals max(fgp, fgn) + nduml + ndumr, whichever branch of the
\* comparison fgp > fgn computes it (fgp = fgn included).
C2_FgTot ==
    (Designed /\ NonNegEvenArgs) =>
        fg_locals[1].fg_tot =
            Max(Args["fgp"], Args["fgn"]) + Args["nduml"] + Args["ndumr"]

\* a call that takes the else branch with fgn strictly larger
C2_Witness ==
    /\ Designed /\ NonNegEvenArgs
    /\ Args["fgn"] > Args["fgp"]
    /\ fg_locals[1].fg_tot > Args["fgp"] + Args["nduml"] + Args["ndumr"]

\* C3: after every call that completes without error the PMOS row and the
\* NMOS row occupy the same number of fingers, nf(XP) + nf(XDP) =
\* nf(XN) + nf(XDN) = max(fgp, fgn) + nduml + ndumr, and the extra dummies of
\* the smaller device are split equally between its left and right side.
C3_RowsBalanced ==
    Designed =>
        LET s == fg_locals[1]
            tot == Max(Args["fgp"], Args["fgn"]) + Args["nduml"] + Args["ndumr"]
        IN /\ Nf("XP") + Nf("XDP") = tot
           /\ Nf("XN") + Nf("XDN") = tot
           /\ s.p_nduml - Args["nduml"] = s.p_ndumr - Args["ndumr"]
           /\ s.n_nduml - Args["nduml"] = s.n_ndumr - Args["ndumr"]
           /\ s.p_nduml + s.p_ndumr + s.n_nduml + s.n_ndumr =
                2 * (Args["nduml"] + Args["ndumr"]) + Abs(Args["fgp"] - Args["fgn"])

\* a call with unequal finger counts and unequal base dummy counts
C3_Witness ==
    /\ Designed
    /\ Args["fgp"] > Args["fgn"]
    /\ Args["nduml"] # Args["ndumr"]
    /\ Nf("XDN") > Nf("XDP")

\* C4: design_specs raises ValueError exactly when at least one of fgp, fgn
\* is odd, and the finger counts of the designed instances XP and XN are even.
C4_OddRejected ==
    (op = "design_specs" /\ local_dict # None) =>
        /\ (err = "ValueError") <=> (IsOdd(Args["fgp"]) \/ IsOdd(Args["fgn"]))
        /\ (err = "none") <=> (IsEven(Args["fgp"]) /\ IsEven(Args["fgn"]))
        /\ \A n \in {"XP", "XN"} : instances[n] # None => IsEven(Nf(n))

\* a call rejected although its PMOS finger count is even: fgn is odd, negative
C4_Witness ==
    /\ op = "design_specs" /\ local_dict # None
    /\ err = "ValueError"
    /\ IsEven(Args["fgp"]) /\ Args["fgn"] < 0

(***************************************************************************)
(* Properties of call sequences on one object (SpecInv).                   *)
(***************************************************************************)
\* C5: a call that omits one of the parameters of param_list raises the
\* generic error 'Parameter <name> not defined' (and stores no value for the
\* parameter).  The call raises TypeError instead: the binding of the call
\* rejects it before the loop that would raise the generic error runs.
C5_MissingParamException ==
    (op = "design_specs" /\ passed # ParamNames) => err = "Exception"

\* C6: after a successful design_specs, get_layout_params returns a
\* dictionary whose lch, wp, wn, fgp, fgn, nduml, ndumr entries are the values
\* passed to design_specs, whose threshold entry is intent and whose
\* rename_dict is the empty pin mapping; every key of kwargs overrides the
\* computed entry of the same name; the call leaves self.parameters unchanged.
C6_LayoutRoundTrip ==
    [][ op' = "get_layout_params" =>
          LET d == ret'[1]
              computed(k) == k \notin DOMAIN kwargs'
          IN /\ parameters' = parameters
             /\ DOMAIN d = {"lch", "wp", "wn", "fgp", "fgn", "nduml", "ndumr",
                            "threshold", "rename_dict"} \cup DOMAIN kwargs'
             /\ \A k \in DOMAIN kwargs' : d[k] = kwargs'[k]
             /\ (op = "design_specs" /\ err = "none") =>
                  /\ \A k \in {"lch", "wp", "wn", "fgp", "fgn", "nduml", "ndumr"} :
                        computed(k) => d[k] = Some(last_ok[1][k])
                  /\ computed("threshold") =>
                        d["threshold"] = Some(last_ok[1]["intent"])
                  /\ computed("rename_dict") =>
                        /\ DOMAIN d["rename_dict"][1] = {}
                        /\ d["rename_dict"] = Some(get_layout_pin_mapping)
      ]_vars

\* get_layout_params has returned a dictionary in which kwargs overrode fgp,
\* after a design_specs call that succeeded
C6_Witness ==
    /\ op = "get_layout_params"
    /\ last_ok # None
    /\ \A p \in ParamNames : parameters[p] = Some(last_ok[1][p])
    /\ "fgp" \in DOMAIN kwargs
    /\ ret[1]["fgp"] # parameters["fgp"]
    /\ ret[1]["wp"] = Some(last_ok[1]["wp"])

\* C7: self.parameters always holds the eight arguments of the most recent
\* call whose body ran, whether it succeeded or was rejected with ValueError,
\* while the four sub-instances keep the sizing of the most recent call that
\* did not raise (none of them is designed before the first such call).
C7_StoreBeforeValidate ==
    /\ local_dict # None =>
          \A p \in ParamNames : parameters[p] = Some(Args[p])
    /\ last_ok = None => \A n \in InstNames : instances[n] = None
    /\ last_ok # None =>
          LET a == last_ok[1]
              extra_p == IF a.fgn > a.fgp THEN a.fgn - a.fgp ELSE 0
              extra_n == IF a.fgp > a.fgn THEN a.fgp - a.fgn ELSE 0
              mos(w, nf) == Some([w |-> w, l |-> a.lch, nf |-> nf,
                                  intent |-> a.intent])
          IN /\ instances["XP"] = mos(a.wp, a.fgp)
             /\ instances["XN"] = mos(a.wn, a.fgn)
             /\ instances["XDP"] = mos(a.wp, a.nduml + a.ndumr + extra_p)
             /\ instances["XDN"] = mos(a.wn, a.nduml + a.ndumr + extra_n)

\* after a rejected call the parameter table and the instance sizing disagree
C7_Witness ==
    /\ op = "design_specs" /\ err = "ValueError"
    /\ last_ok # None
    /\ parameters["fgp"] # Some(Nf("XP"))
    /\ parameters["wp"] # Some(instances["XP"][1].w)

(***************************************************************************)
(* Properties of setup_floorplan (SpecFloor).                              *)
(***************************************************************************)
\* C8: with row_layout_info None, a config in which ng_tracks, ngb_tracks or
\* nds_tracks does not have exactly two entries makes the call raise
\* ValueError before any row is set up, and no track IDs are returned; with
\* row_layout_info given, the rows are set with set_rows_direct and the track
\* lists of config are neither read nor checked.
C8_TwoRowsOnlyWhenBuilt ==
    fp_in # None =>
        LET in == fp_in[1]
            two == \A k \in TrackKeys : in.lens[k] = 2
        IN /\ (in.row_layout_info = None /\ ~ two) =>
                /\ fp_err = "ValueError"
                /\ fp_rows = None
                /\ fp_ret = None
           /\ in.row_layout_info # None =>
                /\ fp_err = "none"
                /\ fp_rows # None
                /\ fp_rows[1].by = "set_rows_direct"
                /\ fp_read \cap TrackKeys = {}
                /\ fp_ret # None

\* a call rejected because only the last track list has the wrong length
C8_Witness ==
    /\ fp_in # None
    /\ fp_in[1].row_layout_info = None
    /\ fp_in[1].lens["ng_tracks"] = 2 /\ fp_in[1].lens["ngb_tracks"] = 2
    /\ fp_in[1].lens["nds_tracks"] = 3
    /\ fp_err = "ValueError" /\ fp_rows = None /\ fp_ret = None

=============================================================================
